---- MODULE Spec2Model ----
(***************************************************************************)
(* punnch/todo-app: the FastAPI handlers of app/api/api.py, the CRUD       *)
(* functions of app/crud/crud.py, the Task table of                        *)
(* app/database/database.py and the request schemas of                     *)
(* app/schemas/schemas.py, as a state machine.                             *)
(*                                                                         *)
(* The committed contents of table "tasks" are the variable tasks.  Every  *)
(* request runs in a worker (a slot of Reqs), in a session of its own      *)
(* whose transaction (sessionmaker(autocommit=False)) holds its writes     *)
(* until COMMIT; statements of different requests interleave.  A store     *)
(* round trip may fail (OperationalError); the handler then ends with a    *)
(* 500 and db.close() rolls the transaction back.                          *)
(***************************************************************************)
EXTENDS Integers, Sequences, FiniteSets, TLC

\* ---------------------------------------------------------------- bounds
\* Number of INSERTs the sequence tasks_id_seq serves (ids are 1..MaxTasks).
MaxTasks == 2
\* Number of INSERTs under the specification with fairness.
FairTasks == 1
\* Readings of the wall clock datetime.now (0..MaxTime).
MaxTime == 1
\* Largest skip and limit a client sends.
MaxPage == 2

\* Workers that handle requests concurrently (FastAPI runs the def handlers
\* in a thread pool).
Reqs == {"w1", "w2"}

\* ------------------------------------------------------------------ text
\* A str, run-length encoded: a sequence of runs [c |-> character, n |-> count].
Run(c, n) == [c |-> c, n |-> n]

\* len(str)
RECURSIVE StrLen(_)
StrLen(s) == IF s = << >> THEN 0 ELSE Head(s).n + StrLen(Tail(s))

IsSpace(c) == c = " "

\* str.strip(): drops the leading and the trailing whitespace runs.
RECURSIVE LStrip(_)
LStrip(s) ==
    IF s = << >> THEN << >>
    ELSE IF IsSpace(Head(s).c) \/ Head(s).n = 0 THEN LStrip(Tail(s))
    ELSE s

RECURSIVE RStrip(_)
RStrip(s) ==
    IF s = << >> THEN << >>
    ELSE IF IsSpace(s[Len(s)].c) \/ s[Len(s)].n = 0
         THEN RStrip(SubSeq(s, 1, Len(s) - 1))
    ELSE s

Strip(s) == RStrip(LStrip(s))

\* Field(min_length=1, max_length=255, ...)
MinLength == 1
MaxLength == 255

\* The request bodies a client sends: "", " ", "a", " a ", 255 and 256
\* characters, 256 blanks.
Texts ==
    { << >>,
      <<Run(" ", 1)>>,
      <<Run("a", 1)>>,
      <<Run("b", MaxLength)>>,
      <<Run("b", MaxLength + 1)>>,
      <<Run(" ", MaxLength + 1)>> }

\* What pydantic stores in model.text for an input it accepts.  Field() has
\* no strip_whitespace parameter (pydantic 2: the keyword lands in
\* json_schema_extra with a deprecation warning), so the text is kept as
\* sent.
TaskBase_text(s) == s

\* TaskBase.text: Field(min_length=1, max_length=255, strip_whitespace=True).
\* The two length constraints are checked on the text as sent.
TaskBase_valid(s) ==
    /\ StrLen(TaskBase_text(s)) >= MinLength
    /\ StrLen(TaskBase_text(s)) <= MaxLength

\* ----------------------------------------------------------------- state
VARIABLES
    tasks,      \* committed rows of table tasks: [id, text, done, created_at]
    id_seq,     \* last value of the sequence behind tasks.id (SERIAL)
    now,        \* the clock datetime.now reads
    ever,       \* history: the ids of the rows ever committed
    pc,         \* worker -> where its request is
    op,         \* worker -> the endpoint it serves
    arg,        \* worker -> the request's parameters and its arrival time
    loc,        \* worker -> the crud function's locals and its transaction
    sess,       \* worker -> the sessions get_db opened for the request
    resp        \* worker -> the response

vars == <<tasks, id_seq, now, ever, pc, op, arg, loc, sess, resp>>

Ids == 1..MaxTasks
Pages == 0..MaxPage

NoArg == [task_id |-> 0, text |-> << >>, done |-> FALSE, skip |-> 0,
          limit |-> 0, t0 |-> 0]
\* obj: the ORM object the function holds (no element: None).
\* sel: tasks_to_delete.  count: deleted_count.
\* ins, upd, del: the rows the open transaction has inserted, updated
\* (id, column, value) and deleted, not yet committed.
\* committed: db.commit() returned.
NoLoc == [obj |-> << >>, sel |-> {}, count |-> 0, ins |-> {}, upd |-> {},
          del |-> {}, committed |-> FALSE]
NoSess == [opened |-> 0, open |-> FALSE, calls |-> 0]
NoResp == [code |-> 0, detail |-> "", tasks |-> << >>, count |-> 0]

Row(id, text, done, created_at) ==
    [id |-> id, text |-> text, done |-> done, created_at |-> created_at]

Init ==
    /\ tasks = {}
    /\ id_seq = 0
    /\ now = 0
    /\ ever = {}
    /\ pc = [r \in Reqs |-> "idle"]
    /\ op = [r \in Reqs |-> "none"]
    /\ arg = [r \in Reqs |-> NoArg]
    /\ loc = [r \in Reqs |-> NoLoc]
    /\ sess = [r \in Reqs |-> NoSess]
    /\ resp = [r \in Reqs |-> NoResp]

\* ------------------------------------------------------------- the store
\* db.query(Task).filter(Task.id == task_id).first()
get_task_query(T, task_id) ==
    LET S == {t \in T : t.id = task_id}
    IN  IF S = {} THEN << >> ELSE <<CHOOSE t \in S : TRUE>>

\* The orders ORDER BY created_at DESC may return the rows of T in: rows of
\* equal created_at come in an order the store chooses.
Orderings(T) ==
    {s \in [1..Cardinality(T) -> T] :
        /\ \A i, j \in 1..Cardinality(T) : i # j => s[i] # s[j]
        /\ \A i \in 1..(Cardinality(T) - 1) :
              s[i].created_at >= s[i + 1].created_at}

Min(a, b) == IF a <= b THEN a ELSE b

\* .offset(skip).limit(limit) of an ordered result
Page(s, skip, limit) == SubSeq(s, skip + 1, Min(Len(s), skip + limit))

\* The query without .offset(skip).
get_tasks_query_no_offset(T, skip, limit) ==
    {Page(s, 0, limit) : s \in Orderings(T)}

\* db.query(Task).order_by(desc(Task.created_at)).offset(skip).limit(limit).all()
get_tasks_query(T, skip, limit) ==
    {Page(s, skip, limit) : s \in Orderings(T)}

\* A filter that selects the rows still to do.
completed_query_negated(T) == {t.id : t \in {u \in T : u.done = FALSE}}

\* db.query(Task).filter(Task.done == True).all(), as primary keys
completed_query(T) == {t.id : t \in {u \in T : u.done = TRUE}}

\* default=datetime.utcnow in a zone ahead of UTC: a reading behind the
\* clock datetime.now reads.
created_at_utcnow == now - 1

\* Column defaults of an INSERT: done (default=False) and created_at
\* (default=datetime.now, called when the INSERT is flushed).
default_done == FALSE
default_created_at == now

SetMax(S) == CHOOSE x \in S : \A y \in S : x >= y

\* A key taken from the rows present: one more than the largest id stored.
next_id_max_plus_one == SetMax({t.id : t \in tasks} \cup {0}) + 1

\* The primary key the INSERT gets: nextval of the sequence of the SERIAL
\* column (the engine is postgresql).
next_id == id_seq + 1

\* Rows another worker's open transaction has written: a writer of such a
\* row waits for that transaction to end (row-level lock).
Locked(r, id) ==
    \E q \in Reqs \ {r} :
        /\ \E t \in tasks : t.id = id
        /\ id \in loc[q].del \cup {u.id : u \in loc[q].upd}

\* An UPDATE with no WHERE clause.
SetColumn_every_row(t, u) ==
    IF u.col = "done" THEN [t EXCEPT !.done = u.done]
    ELSE [t EXCEPT !.text = u.text]

\* UPDATE tasks SET <col>=<value> WHERE tasks.id = <id>, for one pending
\* update u = [id, col, done, text] and one row t.
SetColumn(t, u) ==
    IF u.id # t.id THEN t
    ELSE IF u.col = "done" THEN [t EXCEPT !.done = u.done]
    ELSE [t EXCEPT !.text = u.text]

ApplyUpd(t, U) ==
    IF U = {} THEN t ELSE SetColumn(t, CHOOSE u \in U : TRUE)

\* COMMIT of a transaction with inserted rows I, updates U and deleted ids D.
Committed(T, I, U, D) ==
    {ApplyUpd(t, U) : t \in {x \in T : x.id \notin D}} \cup I

\* ------------------------------------------------------------- requests
Set(f, r, v) == [f EXCEPT ![r] = v]

Response(code, detail, ts, n) ==
    [code |-> code, detail |-> detail, tasks |-> ts, count |-> n]

\* get_db up to its yield: db = SessionLocal()
get_db_enter(s, called) ==
    [opened |-> s.opened + 1, open |-> TRUE, calls |-> IF called THEN 1 ELSE 0]

\* db.close() after the yield with no try/finally: skipped when the handler
\* raises.
get_db_closes_unless_raised(code) == code \in {200, 201}

\* get_db after its yield: try ... finally: db.close(), on every exit.
get_db_closes(code) == TRUE

\* A request for endpoint o with parameters a reaches worker r: FastAPI
\* resolves Depends(get_db), then validates the parameters (valid), then
\* calls the handler, which calls its crud function; an invalid body is
\* answered 422 with the handler never called.
Dispatch(r, o, a, valid) ==
    /\ pc[r] = "idle"
    /\ op' = Set(op, r, o)
    /\ arg' = Set(arg, r, a)
    /\ sess' = Set(sess, r, get_db_enter(sess[r], valid))
    /\ pc' = Set(pc, r, IF valid THEN "call" ELSE "finally")
    /\ resp' = Set(resp, r, IF valid THEN NoResp
                             ELSE Response(422, "validation error", << >>, 0))
    /\ UNCHANGED <<tasks, id_seq, now, ever, loc>>

\* GET /tasks/?skip=&limit=
read_tasks(r) ==
    \E skip \in Pages, limit \in Pages :
        Dispatch(r, "read_tasks",
                 [NoArg EXCEPT !.skip = skip, !.limit = limit], TRUE)

\* DELETE /tasks/completed
delete_completed_tasks_endpoint(r) ==
    Dispatch(r, "delete_completed_tasks", NoArg, TRUE)

\* GET /tasks/{task_id}
read_task(r) ==
    \E id \in Ids : Dispatch(r, "read_task", [NoArg EXCEPT !.task_id = id], TRUE)

\* POST /tasks/ {text}
create_task_of(r, bodies, cap) ==
    \E text \in bodies :
        /\ id_seq + Cardinality({q \in Reqs : op[q] = "create_task" /\ pc[q] = "call"})
              < cap
        /\ Dispatch(r, "create_task",
                    [NoArg EXCEPT !.text = TaskBase_text(text), !.t0 = now],
                    TaskBase_valid(text))

\* PUT /tasks/{task_id}/status?done=
update_task_status_endpoint_of(r, ids) ==
    \E id \in ids, done \in BOOLEAN :
        Dispatch(r, "update_task_status",
                 [NoArg EXCEPT !.task_id = id, !.done = done], TRUE)

\* PUT /tasks/{task_id}/text {text}
update_task_text_endpoint_of(r, bodies) ==
    \E id \in Ids, text \in bodies :
        Dispatch(r, "update_task_text",
                 [NoArg EXCEPT !.task_id = id, !.text = TaskBase_text(text)],
                 TaskBase_valid(text))

\* DELETE /tasks/{task_id}
delete_single_task_endpoint(r) ==
    \E id \in Ids :
        Dispatch(r, "delete_task", [NoArg EXCEPT !.task_id = id], TRUE)

\* The handler returns or raises: the response is fixed and the parameters
\* and the crud function's locals are gone; the session, with what its
\* transaction holds (l), is left to get_db's finally.
Return(r, response, l) ==
    /\ resp' = Set(resp, r, response)
    /\ pc' = Set(pc, r, "finally")
    /\ arg' = Set(arg, r, NoArg)
    /\ loc' = Set(loc, r, [l EXCEPT !.obj = << >>, !.sel = {}, !.count = 0])

\* The crud function goes on to its next store round trip.
Goto(r, label, l) ==
    /\ pc' = Set(pc, r, label)
    /\ loc' = Set(loc, r, l)
    /\ UNCHANGED <<arg, resp>>

NotFound == Response(404, "Task not found", << >>, 0)
ServerError == Response(500, "Internal Server Error", << >>, 0)

\* An endpoint without the "is None" check, answering with an empty task.
TaskOrDefault(code, obj) ==
    Response(code, "", IF obj = << >> THEN <<Row(0, << >>, FALSE, 0)>> ELSE obj, 0)

\* What an endpoint answers for the object its crud function returned:
\* HTTPException(404, "Task not found") for None, the object otherwise.
TaskOr404(code, obj) ==
    IF obj = << >> THEN NotFound ELSE Response(code, "", obj, 0)

\* crud.get_tasks, and read_tasks' return of its result
get_tasks(r) ==
    /\ pc[r] = "call" /\ op[r] = "read_tasks"
    /\ \E res \in get_tasks_query(tasks, arg[r].skip, arg[r].limit) :
          Return(r, Response(200, "", res, 0), loc[r])
    /\ UNCHANGED <<tasks, id_seq, now, ever, op, sess>>

\* crud.get_task, and read_task's 404 check
get_task(r) ==
    /\ pc[r] = "call" /\ op[r] = "read_task"
    /\ Return(r, TaskOr404(200, get_task_query(tasks, arg[r].task_id)), loc[r])
    /\ UNCHANGED <<tasks, id_seq, now, ever, op, sess>>

\* crud.create_task up to the INSERT db.commit() flushes: Task(text=task.text),
\* db.add, and the INSERT with its defaults and its new primary key.  The
\* sequence advances whether or not the transaction commits.
crud_create_task(r) ==
    /\ pc[r] = "call" /\ op[r] = "create_task"
    /\ LET db_task == Row(next_id, arg[r].text, default_done, default_created_at)
       IN  Goto(r, "commit", [loc[r] EXCEPT !.obj = <<db_task>>, !.ins = {db_task}])
    /\ id_seq' = next_id
    /\ UNCHANGED <<tasks, now, ever, op, sess>>

\* The attribute assignment of an update: db_task.done = done or
\* db_task.text = new_text, as the pending UPDATE it makes.
Assignment(o, a) ==
    [id |-> a.task_id,
     col |-> IF o = "update_task_status" THEN "done" ELSE "text",
     done |-> a.done, text |-> a.text]

\* crud.update_task_status, update_task_text and delete_task up to the
\* flush: db_task = get_task(db, task_id); None is returned as it is (the
\* endpoint raises 404).  An assignment of the value the attribute already
\* has leaves the object clean, and the flush emits no UPDATE for it.
crud_get_for_write(r) ==
    /\ pc[r] = "call"
    /\ op[r] \in {"update_task_status", "update_task_text", "delete_task"}
    /\ LET db_task == get_task_query(tasks, arg[r].task_id)
       IN  IF db_task = << >>
           THEN Return(r, TaskOr404(200, db_task), loc[r])
           ELSE IF op[r] = "delete_task"
           THEN Goto(r, "flush", [loc[r] EXCEPT !.obj = db_task,
                                                !.sel = {arg[r].task_id}])
           ELSE LET assigned == SetColumn(db_task[1], Assignment(op[r], arg[r]))
                IN  Goto(r, IF assigned = db_task[1] THEN "commit" ELSE "flush",
                         [loc[r] EXCEPT !.obj = <<assigned>>])
    /\ UNCHANGED <<tasks, id_seq, now, ever, op, sess>>

\* crud.delete_completed_tasks up to the flush: the query, and the loop of
\* db.delete(task) and deleted_count += 1.
crud_delete_completed_tasks(r) ==
    /\ pc[r] = "call" /\ op[r] = "delete_completed_tasks"
    /\ LET tasks_to_delete == completed_query(tasks)
       IN  Goto(r, IF tasks_to_delete = {} THEN "commit" ELSE "flush",
                [loc[r] EXCEPT !.sel = tasks_to_delete,
                               !.count = Cardinality(tasks_to_delete)])
    /\ UNCHANGED <<tasks, id_seq, now, ever, op, sess>>

SetMin(S) == CHOOSE x \in S : \A y \in S : x <= y

\* The flush of db.commit(), one DELETE: DELETE FROM tasks WHERE tasks.id =
\* <id> for the next object marked deleted (the unit of work emits them in
\* primary key order).  The statement waits for a row another transaction
\* has written; a row that is gone by now matches nothing, which the ORM
\* only warns about.
db_flush_delete(r) ==
    /\ pc[r] = "flush"
    /\ op[r] \in {"delete_task", "delete_completed_tasks"}
    /\ LET id == SetMin(loc[r].sel \ loc[r].del)
       IN  /\ ~Locked(r, id)
           /\ Goto(r, IF loc[r].sel = loc[r].del \cup {id} THEN "commit" ELSE "flush",
                   [loc[r] EXCEPT !.del = @ \cup {id}])
    /\ UNCHANGED <<tasks, id_seq, now, ever, op, sess>>

\* The flush of db.commit(), the UPDATE of a dirty object: UPDATE tasks SET
\* <col>=<value> WHERE tasks.id = <id>.  It waits for a row another
\* transaction has written; matching no row raises StaleDataError.
db_flush_update(r) ==
    /\ pc[r] = "flush"
    /\ op[r] \in {"update_task_status", "update_task_text"}
    /\ ~Locked(r, arg[r].task_id)
    /\ IF get_task_query(tasks, arg[r].task_id) = << >>
       THEN Return(r, ServerError, loc[r])
       ELSE Goto(r, "commit", [loc[r] EXCEPT !.upd = {Assignment(op[r], arg[r])}])
    /\ UNCHANGED <<tasks, id_seq, now, ever, op, sess>>

\* The message of the two delete endpoints.
Removed(n) == Response(200, "removed", << >>, n)

\* The COMMIT of db.commit(): the transaction's writes become the committed
\* rows, all at once.  delete_task and delete_completed_tasks return after
\* it (the object, the count), and their endpoints answer.
db_commit(r) ==
    /\ pc[r] = "commit"
    /\ tasks' = Committed(tasks, loc[r].ins, loc[r].upd, loc[r].del)
    /\ ever' = ever \cup {t.id : t \in loc[r].ins}
    /\ LET l == [loc[r] EXCEPT !.ins = {}, !.upd = {}, !.del = {},
                               !.committed = TRUE]
       IN  IF op[r] = "delete_task" THEN Return(r, Removed(1), l)
           ELSE IF op[r] = "delete_completed_tasks"
           THEN Return(r, Removed(loc[r].count), l)
           ELSE Goto(r, "refresh", l)
    /\ UNCHANGED <<id_seq, now, op, sess>>

\* db.refresh(db_task): the row is read again by primary key; a row that is
\* gone raises InvalidRequestError.  The function returns the object and
\* the endpoint answers with it (201 for POST).
db_refresh(r) ==
    /\ pc[r] = "refresh"
    /\ LET db_task == get_task_query(tasks, loc[r].obj[1].id)
       IN  Return(r, IF db_task = << >> THEN ServerError
                     ELSE TaskOr404(IF op[r] = "create_task" THEN 201 ELSE 200,
                                    db_task),
                  loc[r])
    /\ UNCHANGED <<tasks, id_seq, now, ever, op, sess>>

\* A round trip to the store fails (the connection is lost, the server
\* aborts the statement): the exception leaves the crud function and the
\* handler, and the client gets 500.
store_failure(r) ==
    /\ pc[r] \in {"call", "flush", "commit", "refresh"}
    /\ Return(r, ServerError, loc[r])
    /\ UNCHANGED <<tasks, id_seq, now, ever, op, sess>>

\* get_db's finally: db.close() rolls back what the transaction holds and
\* releases its row locks.
get_db_close(r) ==
    /\ pc[r] = "finally"
    /\ IF get_db_closes(resp[r].code)
       THEN /\ sess' = Set(sess, r, [sess[r] EXCEPT !.open = FALSE])
            /\ loc' = Set(loc, r, [loc[r] EXCEPT !.ins = {}, !.upd = {}, !.del = {}])
       ELSE UNCHANGED <<sess, loc>>
    /\ pc' = Set(pc, r, "done")
    /\ UNCHANGED <<tasks, id_seq, now, ever, op, arg, resp>>

\* The response is sent; the worker takes the next request.
respond(r) ==
    /\ pc[r] = "done"
    /\ pc' = Set(pc, r, "idle")
    /\ op' = Set(op, r, "none")
    /\ arg' = Set(arg, r, NoArg)
    /\ loc' = Set(loc, r, NoLoc)
    /\ sess' = Set(sess, r, NoSess)
    /\ resp' = Set(resp, r, NoResp)
    /\ UNCHANGED <<tasks, id_seq, now, ever>>

\* The clock advances.
Tick ==
    /\ now < MaxTime
    /\ now' = now + 1
    /\ UNCHANGED <<tasks, id_seq, ever, pc, op, arg, loc, sess, resp>>

\* ------------------------------------------------------- specifications
\* The request bodies of the one-at-a-time specification: "", "a" and 255
\* characters.
SomeTexts == {<< >>, <<Run("a", 1)>>, <<Run("b", MaxLength)>>}

create_task(r) == create_task_of(r, SomeTexts, MaxTasks)
update_task_status_endpoint(r) == update_task_status_endpoint_of(r, Ids)
update_task_text_endpoint(r) == update_task_text_endpoint_of(r, SomeTexts)

Step(r) ==
    \/ get_tasks(r)
    \/ get_task(r)
    \/ crud_create_task(r)
    \/ crud_get_for_write(r)
    \/ crud_delete_completed_tasks(r)
    \/ db_flush_delete(r)
    \/ db_flush_update(r)
    \/ db_commit(r)
    \/ db_refresh(r)
    \/ store_failure(r)
    \/ get_db_close(r)

Request(r) ==
    \/ read_tasks(r)
    \/ delete_completed_tasks_endpoint(r)
    \/ read_task(r)
    \/ create_task(r)
    \/ update_task_status_endpoint(r)
    \/ update_task_text_endpoint(r)
    \/ delete_single_task_endpoint(r)

\* One request at a time: the contract of each operation.
Next ==
    \/ Tick
    \/ \E r \in {"w1"} : Request(r) \/ Step(r) \/ respond(r)

Spec == Init /\ [][Next]_vars

\* The two text endpoints, one request at a time, with every request body
\* of Texts and the clock standing still.
TextRequest(r) ==
    \/ create_task_of(r, Texts, MaxTasks)
    \/ update_task_text_endpoint_of(r, Texts)

TextStep(r) ==
    \/ crud_create_task(r)
    \/ crud_get_for_write(r)
    \/ db_flush_update(r)
    \/ db_commit(r)
    \/ db_refresh(r)
    \/ store_failure(r)
    \/ get_db_close(r)

TextNext == \E r \in {"w1"} : TextRequest(r) \/ TextStep(r) \/ respond(r)

TextSpec == Init /\ [][TextNext]_vars

\* Requests of the mutating endpoints in two workers at once, with the
\* request bodies "" and "a" and the clock standing still.
ConcRequest(r) ==
    \/ create_task_of(r, {<< >>, <<Run("a", 1)>>}, MaxTasks)
    \/ update_task_status_endpoint(r)
    \/ delete_single_task_endpoint(r)
    \/ delete_completed_tasks_endpoint(r)

ConcStep(r) ==
    \/ crud_create_task(r)
    \/ crud_get_for_write(r)
    \/ crud_delete_completed_tasks(r)
    \/ db_flush_delete(r)
    \/ db_flush_update(r)
    \/ db_commit(r)
    \/ db_refresh(r)
    \/ store_failure(r)
    \/ get_db_close(r)

ConcNext == \E r \in Reqs : ConcRequest(r) \/ ConcStep(r) \/ respond(r)

ConcSpec == Init /\ [][ConcNext]_vars

\* What the scheduling gives a request that has been dispatched: its worker
\* thread keeps running, so the step it is at is taken unless the store
\* fails it; and a statement waiting for a row lock gets the lock when its
\* turn comes (the store queues the waiters), however often the row is
\* locked again.
Progress(r) ==
    \/ crud_create_task(r)
    \/ crud_get_for_write(r)
    \/ crud_delete_completed_tasks(r)
    \/ db_flush_delete(r)
    \/ db_flush_update(r)
    \/ db_commit(r)
    \/ db_refresh(r)
    \/ get_db_close(r)

\* Requests of create, update-status and delete-completed in two workers at
\* once, for ids stored and not stored.
FairRequest(r) ==
    \/ create_task_of(r, {<< >>, <<Run("a", 1)>>}, FairTasks)
    \/ update_task_status_endpoint_of(r, 1..(FairTasks + 1))
    \/ delete_completed_tasks_endpoint(r)

FairStep(r) ==
    \/ crud_create_task(r)
    \/ crud_get_for_write(r)
    \/ crud_delete_completed_tasks(r)
    \/ db_flush_delete(r)
    \/ db_flush_update(r)
    \/ db_commit(r)
    \/ db_refresh(r)
    \/ store_failure(r)
    \/ get_db_close(r)

FairNext == \E r \in Reqs : FairRequest(r) \/ FairStep(r) \/ respond(r)

FairSpec ==
    /\ Init /\ [][FairNext]_vars
    /\ \A r \in Reqs :
          /\ WF_vars(Progress(r))
          /\ SF_vars(db_flush_delete(r))
          /\ SF_vars(db_flush_update(r))

\* ---------------------------------------------------------------- claims
IdsOf(T) == {t.id : t \in T}
Range(s) == {s[i] : i \in 1..Len(s)}
Max(a, b) == IF a >= b THEN a ELSE b

\* Worker r's crud function returns or raises in this step.
Returns(r) == pc[r] \in {"call", "flush", "commit", "refresh"} /\ pc'[r] = "finally"

\* C1: round trip.  GET /tasks/{id} answers with the stored task of that
\* id; the task POST /tasks/ answers with is the task get_task returns for
\* its id, with the text that was sent, done = false and a
\* created_at no earlier than the request's arrival; and what get_task
\* returns for a stored id changes only in the commit of an update or a
\* delete of that id.
C1_RoundTrip ==
    [][\A r \in Reqs :
        /\ (op[r] = "read_task" /\ Returns(r) /\ resp'[r].code = 200) =>
              /\ resp'[r].tasks = get_task_query(tasks, arg[r].task_id)
              /\ resp'[r].tasks[1].id = arg[r].task_id
        /\ (op[r] = "create_task" /\ Returns(r) /\ resp'[r].code = 201) =>
              LET got == get_task_query(tasks', resp'[r].tasks[1].id)
              IN  /\ got = resp'[r].tasks
                  /\ got[1].id = loc[r].obj[1].id
                  /\ got[1].text = arg[r].text
                  /\ got[1].done = FALSE
                  /\ got[1].created_at >= arg[r].t0
        /\ \A id \in IdsOf(tasks) :
              get_task_query(tasks', id) # get_task_query(tasks, id) =>
                 \E q \in Reqs :
                    /\ pc[q] = "commit"
                    /\ op[q] \in {"update_task_status", "update_task_text",
                                  "delete_task", "delete_completed_tasks"}
                    /\ id \in loc[q].del \cup {u.id : u \in loc[q].upd}
      ]_vars

\* A POST that arrived after the clock had advanced was answered 201 with a
\* second task.
C1_Witness ==
    \E r \in Reqs :
        /\ op[r] = "create_task" /\ pc[r] = "done" /\ resp[r].code = 201
        /\ resp[r].tasks[1].created_at > 0
        /\ resp[r].tasks[1].id > 1
        /\ resp[r].tasks[1] \in tasks

FourOps == {"read_task", "update_task_status", "update_task_text", "delete_task"}

\* C3: not found.  get, update-status, update-text and delete of an id that
\* is not stored end at their first lookup with 404 "Task not found" and no
\* task in the answer (500 when the lookup itself fails in the store), and
\* leave the stored tasks as they were, with nothing written or committed.
C3_NotFound ==
    [][\A r \in Reqs :
        (/\ pc[r] = "call" /\ op[r] \in FourOps
         /\ arg[r].task_id \notin IdsOf(tasks)
         /\ pc'[r] # pc[r]) =>
            /\ pc'[r] = "finally"
            /\ resp'[r] \in {NotFound, ServerError}
            /\ resp'[r].tasks = << >>
            /\ tasks' = tasks
            /\ loc'[r] = NoLoc
      ]_vars

\* A delete of an id that was stored once and is gone was answered 404
\* while other tasks are stored.
C3_Witness ==
    \E r \in Reqs :
        /\ op[r] = "delete_task" /\ pc[r] = "done" /\ resp[r] = NotFound
        /\ tasks # {}
        /\ ever \ IdsOf(tasks) # {}

\* res is positions skip+1 .. skip+limit of an ordering of T by created_at,
\* newest first: as long as what is left after skip, no row twice, and
\* position p holds a row with fewer than p rows newer than it and no fewer
\* than p rows at least as new.
IsWindow(res, T, skip, limit) ==
    /\ Len(res) = Min(limit, Max(Cardinality(T) - skip, 0))
    /\ Range(res) \subseteq T
    /\ \A i, j \in 1..Len(res) : i # j => res[i] # res[j]
    /\ \A i \in 1..Len(res) :
          /\ Cardinality({t \in T : t.created_at > res[i].created_at}) < skip + i
          /\ Cardinality({t \in T : t.created_at >= res[i].created_at}) >= skip + i

StrictlyDescending(res) ==
    \A i \in 1..(Len(res) - 1) : res[i].created_at > res[i + 1].created_at

NotAscending(res) ==
    \A i \in 1..(Len(res) - 1) : res[i].created_at >= res[i + 1].created_at

\* Worker r's crud.get_tasks runs in this step.
Lists(r) == op[r] = "read_tasks" /\ pc[r] = "call" /\ resp'[r].code = 200

\* C4 as claimed: the list is at most limit long, in strictly descending
\* created_at order, and is positions skip .. skip+limit-1 of the
\* newest-first ordering of the stored tasks.
C4_StrictOrder ==
    [][\A r \in Reqs :
        Lists(r) =>
            /\ Len(resp'[r].tasks) <= arg[r].limit
            /\ StrictlyDescending(resp'[r].tasks)
            /\ IsWindow(resp'[r].tasks, tasks, arg[r].skip, arg[r].limit)
      ]_vars

\* C4 as amended: the list is at most limit long, never ascending in
\* created_at (equal neighbours are possible), and is positions
\* skip .. skip+limit-1 of a newest-first ordering of the stored tasks; with
\* skip = 0 no task left out is newer than a task returned.
C4_ListOrder ==
    [][\A r \in Reqs :
        Lists(r) =>
            /\ Len(resp'[r].tasks) <= arg[r].limit
            /\ NotAscending(resp'[r].tasks)
            /\ IsWindow(resp'[r].tasks, tasks, arg[r].skip, arg[r].limit)
            /\ arg[r].skip = 0 =>
                  \A t \in tasks \ Range(resp'[r].tasks) :
                     \A u \in Range(resp'[r].tasks) : t.created_at <= u.created_at
      ]_vars

\* A list of the two stored tasks was answered, the two created at the same
\* clock reading.
C4_Witness ==
    \E r \in Reqs :
        /\ op[r] = "read_tasks" /\ pc[r] = "done" /\ resp[r].code = 200
        /\ Cardinality(tasks) = 2
        /\ Len(resp[r].tasks) = 2
        /\ resp[r].tasks[1].created_at = resp[r].tasks[2].created_at
        /\ Range(resp[r].tasks) \subseteq tasks

C6_UpdateFrame ==
    [][\A r \in Reqs :
        (/\ op[r] \in {"update_task_status", "update_task_text"}
         /\ arg[r].task_id \in IdsOf(tasks)
         /\ pc'[r] # pc[r]) =>
            LET old == get_task_query(tasks, arg[r].task_id)[1]
                new == IF op[r] = "update_task_status"
                       THEN [old EXCEPT !.done = arg[r].done]
                       ELSE [old EXCEPT !.text = arg[r].text]
            IN  /\ pc[r] = "call" => resp'[r] \in {NoResp, ServerError}
                /\ (pc[r] = "commit" /\ pc'[r] = "refresh") =>
                       tasks' = (tasks \ {old}) \cup {new}
                /\ ~(pc[r] = "commit" /\ pc'[r] = "refresh") => tasks' = tasks
                /\ (pc[r] = "refresh" /\ resp'[r].code = 200) =>
                       /\ resp'[r].tasks = <<new>>
                       /\ get_task_query(tasks', arg[r].task_id) = <<new>>
      ]_vars

\* A text update was answered 200 with the task as stored, beside another
\* stored task that is done and has another text.
C6_Witness ==
    \E r \in Reqs :
        /\ op[r] = "update_task_text" /\ pc[r] = "done" /\ resp[r].code = 200
        /\ resp[r].tasks[1] \in tasks
        /\ \E t \in tasks : /\ t.id # resp[r].tasks[1].id
                            /\ t.done
                            /\ t.text # resp[r].tasks[1].text

\* C7: ids.  No two stored tasks share an id, and the id an INSERT of
\* create_task gets is the id of no stored task and of no task that was
\* ever stored.
C7_IdsUnique ==
    [][/\ \A t, u \in tasks' : t.id = u.id => t = u
       /\ \A r \in Reqs :
            (op[r] = "create_task" /\ pc[r] = "call" /\ pc'[r] = "commit") =>
                \A t \in loc'[r].ins : t.id \notin ever \cup IdsOf(tasks)
      ]_vars

\* A task is stored whose id is larger than the id of a task that was
\* stored and deleted, and it was created after that delete.
C7_Witness ==
    \E r \in Reqs :
        /\ op[r] = "create_task" /\ pc[r] = "done" /\ resp[r].code = 201
        /\ resp[r].tasks[1] \in tasks
        /\ \E id \in ever \ IdsOf(tasks) : id < resp[r].tasks[1].id

\* The lengths the claim names, measured on the text without its
\* surrounding whitespace.
Rejectable(s) ==
    StrLen(s) = 0 \/ Strip(s) = << >> \/ StrLen(s) = MaxLength + 1

Acceptable(s) ==
    Strip(s) # << >> /\ StrLen(s) \in {MinLength, MaxLength}

\* C2: validation boundary.  A create or text update whose text is empty,
\* all whitespace or 256 long is answered 422 and never reaches its crud
\* function, one whose text is 1 or 255 long is not answered 422, and no
\* stored text is empty once its surrounding whitespace is removed.
C2_ValidationBoundary ==
    /\ \A t \in tasks : Strip(t.text) # << >>
    /\ \A r \in Reqs :
          op[r] \in {"create_task", "update_task_text"} =>
              /\ pc[r] = "call" => ~Rejectable(arg[r].text)
              /\ resp[r].code = 422 => ~Acceptable(arg[r].text)

Mutating == {"create_task", "update_task_status", "update_task_text",
             "delete_task", "delete_completed_tasks"}

\* C9: atomicity.  A mutating operation that ends in an error has committed
\* nothing; the stored tasks change only in the commit of one operation, by
\* all that operation wrote; and the tasks one delete_completed_tasks call
\* selected leave the store together, in its commit.
C9_Atomicity ==
    [][/\ \A r \in Reqs :
            (op[r] \in Mutating /\ Returns(r) /\ resp'[r].code = 500) =>
                ~loc'[r].committed
       /\ tasks' # tasks =>
            \E r \in Reqs :
                /\ pc[r] = "commit" /\ pc'[r] # "commit"
                /\ tasks' = Committed(tasks, loc[r].ins, loc[r].upd, loc[r].sel)
      ]_vars

\* C10: bulk delete under concurrency.  Every task the commit of
\* delete_completed_tasks removes is done in the committed state it is
\* removed from, and the count answered is the number of tasks that commit
\* removed.
C10_BulkDeleteConcurrent ==
    [][\A r \in Reqs :
        (/\ op[r] = "delete_completed_tasks"
         /\ pc[r] = "commit" /\ resp'[r].code = 200) =>
            /\ \A t \in tasks \ tasks' : t.done
            /\ resp'[r].count = Cardinality(tasks \ tasks')
      ]_vars

====
